---- MODULE Spec2Model ----
\* A model of tools/coverage-report.py: the parser of RaCoCo's report.txt
\* (parse_report_txt) and the archiving run (main) over the files of the
\* coverage directory.
\*
\* Text is modelled as sequences of one-character strings, so that strip,
\* split, replace, float() and int() are computed on the characters as Python
\* computes them.  Two specifications are given:
\*   ParseSpec  parse_report_txt, one loop iteration per step, over every file
\*              of at most MaxLines lines drawn from SampleLines;
\*   Spec       main, one statement per step, over a file system, a clock and
\*              up to MaxRuns successive runs on the same directory.
EXTENDS Integers, Sequences, FiniteSets, TLC

VARIABLES
    \* ---- parse_report_txt (ParseSpec)
    f,          \* the lines of the file being read
    i,          \* how many lines the loop has consumed
    modules,    \* the local list `modules`
    ret,        \* the returned report, NoReport until the function returns
    ppc,        \* "loop", "returned" or "raised"
    \* ---- main (Spec)
    argv,       \* sys.argv[1:]
    fs,         \* the file system: path -> file
    clock,      \* the wall clock, in ticks of 1/TicksPerMinute minute
    pc,         \* the statement main is at
    exc,        \* the call that raised, "" when none did
    data,       \* the local `data`
    timestamp,  \* the local `timestamp`
    stdout,     \* lines printed to standard output by the current run
    stderr,     \* lines printed to the error stream by the current run
    status,     \* the exit status of the current run, -1 while running
    start,      \* the file system as it was when the current run began
    runs        \* how many runs have begun

parseVars == <<f, i, modules, ret, ppc>>
mainVars  == <<argv, fs, clock, pc, exc, data, timestamp, stdout, stderr,
               status, start, runs>>
vars      == <<f, i, modules, ret, ppc, argv, fs, clock, pc, exc, data,
               timestamp, stdout, stderr, status, start, runs>>

-----------------------------------------------------------------------------
\* Bounds

MaxLines == 3           \* lines in a report.txt of ParseSpec
MaxRuns == 2            \* successive runs of main on the directory
MaxClock == 2           \* last tick of the clock
TicksPerMinute == 2     \* clock ticks in one minute of the timestamp token

-----------------------------------------------------------------------------
\* Strings: Python's str methods on sequences of characters

Whitespace == {" ", "\t"}

RECURSIVE lstrip(_)
lstrip(s) ==
    IF s # <<>> /\ Head(s) \in Whitespace THEN lstrip(Tail(s)) ELSE s

RECURSIVE rstrip(_)
rstrip(s) ==
    IF s # <<>> /\ s[Len(s)] \in Whitespace
    THEN rstrip(SubSeq(s, 1, Len(s) - 1))
    ELSE s

\* str.strip()
strip(s) == rstrip(lstrip(s))

\* str.startswith(prefix)
startswith(s, prefix) ==
    Len(s) >= Len(prefix) /\ SubSeq(s, 1, Len(prefix)) = prefix

\* str.find(sep, from): the lowest index >= from where sep occurs, 0 if none
RECURSIVE find(_, _, _)
find(s, sep, from) ==
    IF from + Len(sep) - 1 > Len(s) THEN 0
    ELSE IF SubSeq(s, from, from + Len(sep) - 1) = sep THEN from
    ELSE find(s, sep, from + 1)

\* str.split(sep): cut at every occurrence of sep, scanning left to right
RECURSIVE split_sep(_, _)
split_sep(s, sep) ==
    LET at == find(s, sep, 1) IN
    IF at = 0 THEN <<s>>
    ELSE <<SubSeq(s, 1, at - 1)>>
         \o split_sep(SubSeq(s, at + Len(sep), Len(s)), sep)

\* str.replace(ch, ''): every occurrence of the character removed
RECURSIVE remove_char(_, _)
remove_char(s, ch) ==
    IF s = <<>> THEN <<>>
    ELSE IF Head(s) = ch THEN remove_char(Tail(s), ch)
    ELSE <<Head(s)>> \o remove_char(Tail(s), ch)

\* the length of the leading run of non-whitespace characters
RECURSIVE word_len(_)
word_len(s) ==
    IF s = <<>> \/ Head(s) \in Whitespace THEN 0 ELSE 1 + word_len(Tail(s))

\* str.split(): the maximal runs of non-whitespace characters
RECURSIVE split(_)
split(s) ==
    LET t == lstrip(s) IN
    IF t = <<>> THEN <<>>
    ELSE LET n == word_len(t) IN
         <<SubSeq(t, 1, n)>> \o split(SubSeq(t, n + 1, Len(t)))

-----------------------------------------------------------------------------
\* Numbers: float() and int() on the characters of the model's alphabet
\* (decimal digits, sign, point and the letters of "nan"; exponents,
\* underscores and "inf" do not occur in it)

Digits == {"0", "1", "2", "3", "4", "5", "6", "7", "8", "9"}

DigitVal(c) ==
    CASE c = "0" -> 0 [] c = "1" -> 1 [] c = "2" -> 2 [] c = "3" -> 3
      [] c = "4" -> 4 [] c = "5" -> 5 [] c = "6" -> 6 [] c = "7" -> 7
      [] c = "8" -> 8 [] c = "9" -> 9

AllDigits(s) == \A k \in 1..Len(s) : s[k] \in Digits

RECURSIVE DigitsVal(_)
DigitsVal(s) ==
    IF s = <<>> THEN 0
    ELSE 10 * DigitsVal(SubSeq(s, 1, Len(s) - 1)) + DigitVal(s[Len(s)])

RECURSIVE Pow10(_)
Pow10(n) == IF n = 0 THEN 1 ELSE 10 * Pow10(n - 1)

HasSign(s) == s # <<>> /\ Head(s) \in {"+", "-"}
Unsigned(s) == IF HasSign(s) THEN Tail(s) ELSE s
SignOf(s) == IF s # <<>> /\ Head(s) = "-" THEN -1 ELSE 1

IsNanLiteral(s) ==
    /\ Len(s) = 3
    /\ s[1] \in {"n", "N"} /\ s[2] \in {"a", "A"} /\ s[3] \in {"n", "N"}

\* the digits before and after the point of an unsigned decimal literal
IntPart(u) ==
    LET dot == find(u, <<".">>, 1) IN
    IF dot = 0 THEN u ELSE SubSeq(u, 1, dot - 1)
FracPart(u) ==
    LET dot == find(u, <<".">>, 1) IN
    IF dot = 0 THEN <<>> ELSE SubSeq(u, dot + 1, Len(u))

\* float(s) does not raise ValueError
float_ok(s) ==
    LET u == Unsigned(strip(s)) IN
    \/ IsNanLiteral(u)
    \/ /\ AllDigits(IntPart(u)) /\ AllDigits(FracPart(u))
       /\ Len(IntPart(u)) + Len(FracPart(u)) > 0

\* float(s): NaN, or the exact decimal num/den
float_val(s) ==
    LET u == Unsigned(strip(s)) IN
    IF IsNanLiteral(u) THEN [nan |-> TRUE, num |-> 0, den |-> 1]
    ELSE [nan |-> FALSE,
          num |-> SignOf(strip(s)) * DigitsVal(IntPart(u) \o FracPart(u)),
          den |-> Pow10(Len(FracPart(u)))]

\* x < y on floats: every comparison with NaN is false
float_lt(x, y) ==
    ~x.nan /\ ~y.nan /\ x.num * y.den < y.num * x.den

\* x >= y on floats
float_ge(x, y) ==
    ~x.nan /\ ~y.nan /\ x.num * y.den >= y.num * x.den

\* -x
float_neg(x) == [x EXCEPT !.num = -x.num]

\* int(s) does not raise ValueError
int_ok(s) == Unsigned(s) # <<>> /\ AllDigits(Unsigned(s))

\* int(s)
int_val(s) == SignOf(s) * DigitsVal(Unsigned(s))

-----------------------------------------------------------------------------
\* parse_report_txt, line by line

Sep == <<" ", "|", " ">>                            \* ' | '
RaCoCo == <<"R", "a", "C", "o", "C", "o">>          \* 'RaCoCo'
Filename == <<"F", "i", "l", "e", "n", "a", "m", "e">>  \* 'Filename'

\* the condition of the first `continue`: empty, or a header line
is_header_or_blank(line) ==
    LET l == strip(line) IN
    l = <<>> \/ startswith(l, RaCoCo) \/ startswith(l, Filename)

\* parts = line.split(' | ') of the stripped line
parts_of(line) == split_sep(strip(line), Sep)

\* coverage_str = parts[1].replace('%', '').strip()
coverage_str(parts) == strip(remove_char(parts[2], "%"))

\* for i in range(k, len(tokens) - 1, 2): try int(), int(), append; except: pass
RECURSIVE segment_pairs(_, _)
segment_pairs(tokens, k) ==
    IF k >= Len(tokens) - 1 THEN <<>>
    ELSE (IF int_ok(tokens[k + 1]) /\ int_ok(tokens[k + 2])
          THEN <<[line |-> int_val(tokens[k + 1]),
                  hits |-> int_val(tokens[k + 2])]>>
          ELSE <<>>)
         \o segment_pairs(tokens, k + 2)

\* for segment in parts[from:]: the pairs of segment.strip().split()
RECURSIVE hit_pairs(_, _)
hit_pairs(parts, from) ==
    IF from > Len(parts) THEN <<>>
    ELSE segment_pairs(split(strip(parts[from])), 0)
         \o hit_pairs(parts, from + 1)

\* covered_count with the test p["hits"] >= 0
RECURSIVE covered_count_nonnegative(_)
covered_count_nonnegative(pairs) ==
    IF pairs = <<>> THEN 0
    ELSE (IF Head(pairs).hits >= 0 THEN 1 ELSE 0)
         + covered_count_nonnegative(Tail(pairs))

\* sum(1 for p in hit_pairs if p["hits"] > 0)
RECURSIVE covered_count(_)
covered_count(pairs) ==
    IF pairs = <<>> THEN 0
    ELSE (IF Head(pairs).hits > 0 THEN 1 ELSE 0) + covered_count(Tail(pairs))

\* the dict appended to `modules` for a line that passed the three checks
module_record(parts) ==
    [module       |-> parts[1],
     coverage     |-> float_val(coverage_str(parts)),
     totalLines   |-> Len(hit_pairs(parts, 3)),
     coveredLines |-> covered_count(hit_pairs(parts, 3))]

\* sum(m[field] for m in modules)
RECURSIVE sum_total(_)
sum_total(ms) ==
    IF ms = <<>> THEN 0 ELSE Head(ms).totalLines + sum_total(Tail(ms))
RECURSIVE sum_covered(_)
sum_covered(ms) ==
    IF ms = <<>> THEN 0 ELSE Head(ms).coveredLines + sum_covered(Tail(ms))

\* overall_tenths with the percentage truncated instead of rounded
overall_tenths_truncated(covered, total) ==
    IF total > 0 THEN (1000 * covered) \div total ELSE 0

\* round(covered / total * 100, 1) if total > 0 else 0.0, in tenths of a
\* percent.  round() takes a tie to the even digit; the quotient is exact
\* here, in binary floating point a tie (no total below 16 has one) can fall
\* to either side
overall_tenths(covered, total) ==
    IF total > 0
    THEN LET q == (1000 * covered) \div total
             r == (1000 * covered) % total
         IN  IF 2 * r > total THEN q + 1
             ELSE IF 2 * r < total THEN q
             ELSE IF q % 2 = 0 THEN q ELSE q + 1
    ELSE 0

-----------------------------------------------------------------------------
\* sorted(modules, key=lambda m: -m["coverage"]): CPython's list.sort on a
\* list shorter than 64, an initial run followed by binary insertion

\* key(a) < key(b)
key_lt(a, b) == float_lt(float_neg(a.coverage), float_neg(b.coverage))

\* count_run: the length of the run that starts the list; n elements are in
RECURSIVE count_run(_, _, _)
count_run(xs, n, descending) ==
    IF n >= Len(xs) THEN n
    ELSE IF key_lt(xs[n + 1], xs[n]) = descending
         THEN count_run(xs, n + 1, descending)
         ELSE n

RECURSIVE reverse(_)
reverse(xs) ==
    IF xs = <<>> THEN <<>> ELSE reverse(Tail(xs)) \o <<Head(xs)>>

\* the binary search of binarysort: where pivot goes in xs[l+1 .. r]
RECURSIVE bisect(_, _, _, _)
bisect(xs, pivot, l, r) ==
    IF l >= r THEN l
    ELSE LET p == l + ((r - l) \div 2) IN
         IF key_lt(pivot, xs[p + 1]) THEN bisect(xs, pivot, l, p)
         ELSE bisect(xs, pivot, p + 1, r)

\* binarysort: xs[1 .. sorted_n] is sorted, insert the rest one by one
RECURSIVE binarysort(_, _)
binarysort(xs, sorted_n) ==
    IF sorted_n >= Len(xs) THEN xs
    ELSE LET pivot == xs[sorted_n + 1]
             at == bisect(xs, pivot, 0, sorted_n)
         IN  binarysort(SubSeq(xs, 1, at) \o <<pivot>>
                        \o SubSeq(xs, at + 1, sorted_n)
                        \o SubSeq(xs, sorted_n + 2, Len(xs)),
                        sorted_n + 1)

sorted(xs) ==
    IF Len(xs) < 2 THEN xs
    ELSE LET descending == key_lt(xs[2], xs[1])
             n == count_run(xs, 2, descending)
             run == IF descending
                    THEN reverse(SubSeq(xs, 1, n)) \o SubSeq(xs, n + 1, Len(xs))
                    ELSE xs
         IN  binarysort(run, n)

\* the dict parse_report_txt returns for the list `modules`
report_of(ms) ==
    [totalCoverage |-> overall_tenths(sum_covered(ms), sum_total(ms)),
     totalLines    |-> sum_total(ms),
     coveredLines  |-> sum_covered(ms),
     modules       |-> sorted(ms)]

\* the whole loop: `modules` after the lines of a file
RECURSIVE modules_of(_)
modules_of(lines) ==
    IF lines = <<>> THEN <<>>
    ELSE LET line == lines[Len(lines)]
             before == modules_of(SubSeq(lines, 1, Len(lines) - 1))
         IN  IF is_header_or_blank(line) THEN before
             ELSE IF Len(parts_of(line)) < 3 THEN before
             ELSE IF ~float_ok(coverage_str(parts_of(line))) THEN before
             ELSE Append(before, module_record(parts_of(line)))

parse_report_txt(lines) == report_of(modules_of(lines))

-----------------------------------------------------------------------------
\* The inputs of ParseSpec: report lines, as characters

\* "RaCoCo | 50% | 1 1"
LineBanner ==
    <<"R", "a", "C", "o", "C", "o", " ", "|", " ", "5", "0", "%", " ", "|",
      " ", "1", " ", "1">>
\* "Filename | 9% | 1 1"
LineColumns ==
    <<"F", "i", "l", "e", "n", "a", "m", "e", " ", "|", " ", "9", "%", " ",
      "|", " ", "1", " ", "1">>
\* "  "
LineBlank == <<" ", " ">>
\* "foo.go | 75.5% | 1 1 2 0 3 1"
LineFoo ==
    <<"f", "o", "o", ".", "g", "o", " ", "|", " ", "7", "5", ".", "5", "%",
      " ", "|", " ", "1", " ", "1", " ", "2", " ", "0", " ", "3", " ", "1">>
\* "b | 50%"
LineShort == <<"b", " ", "|", " ", "5", "0", "%">>
\* "c | x% | 1 1"
LineBadPct ==
    <<"c", " ", "|", " ", "x", "%", " ", "|", " ", "1", " ", "1">>
\* "d | 90% | 1 x 2 1"
LineBadTok ==
    <<"d", " ", "|", " ", "9", "0", "%", " ", "|", " ", "1", " ", "x", " ",
      "2", " ", "1">>
\* "e | 50% | 1 1 2 | 0 3 1"
LineSegs ==
    <<"e", " ", "|", " ", "5", "0", "%", " ", "|", " ", "1", " ", "1", " ",
      "2", " ", "|", " ", "0", " ", "3", " ", "1">>
\* "n | nan% | 1 1"
LineNan ==
    <<"n", " ", "|", " ", "n", "a", "n", "%", " ", "|", " ", "1", " ", "1">>
\* "g | 90.0% | 7"
LineNoPairs ==
    <<"g", " ", "|", " ", "9", "0", ".", "0", "%", " ", "|", " ", "7">>
\* " h | 50.0% | 1 -1 2 0 "
LineNeg ==
    <<" ", "h", " ", "|", " ", "5", "0", ".", "0", "%", " ", "|", " ", "1",
      " ", "-", "1", " ", "2", " ", "0", " ">>

SampleLines ==
    {LineBanner, LineColumns, LineBlank, LineFoo, LineShort, LineBadPct,
     LineBadTok, LineSegs, LineNan, LineNoPairs, LineNeg}

\* every file of at most n lines
FilesUpTo(n) == UNION {[1..k -> SampleLines] : k \in 0..n}

NoReport == [none |-> TRUE]

-----------------------------------------------------------------------------
\* main's state while only the parser runs, and the parser's while main runs

MainIdle ==
    /\ argv = <<>> /\ fs = <<>> /\ clock = 0 /\ pc = "idle" /\ exc = ""
    /\ data = NoReport /\ timestamp = -1 /\ stdout = <<>> /\ stderr = <<>>
    /\ status = -1 /\ start = <<>> /\ runs = 0

ParserIdle ==
    /\ f = <<>> /\ i = 0 /\ modules = <<>> /\ ret = NoReport /\ ppc = "idle"

-----------------------------------------------------------------------------
\* ParseSpec: parse_report_txt(path) on a file that exists

ParseInit ==
    /\ f \in FilesUpTo(MaxLines)
    /\ i = 0 /\ modules = <<>> /\ ret = NoReport /\ ppc = "loop"
    /\ MainIdle

\* the line the loop is at
Line == f[i + 1]

InLoop == ppc = "loop" /\ i < Len(f)

\* if not line or line.startswith(...): continue
SkipHeaderOrBlank ==
    /\ InLoop
    /\ is_header_or_blank(Line)
    /\ i' = i + 1
    /\ UNCHANGED <<f, modules, ret, ppc>> /\ UNCHANGED mainVars

\* if len(parts) < 3: continue
SkipShort ==
    /\ InLoop
    /\ ~is_header_or_blank(Line)
    /\ Len(parts_of(Line)) < 3
    /\ i' = i + 1
    /\ UNCHANGED <<f, modules, ret, ppc>> /\ UNCHANGED mainVars

\* SkipBadCoverage with the ValueError of float() not caught
SkipBadCoverage_raises ==
    /\ InLoop
    /\ ~is_header_or_blank(Line)
    /\ Len(parts_of(Line)) >= 3
    /\ ~float_ok(coverage_str(parts_of(Line)))
    /\ ppc' = "raised"
    /\ UNCHANGED <<f, i, modules, ret>> /\ UNCHANGED mainVars

\* except ValueError: continue
SkipBadCoverage ==
    /\ InLoop
    /\ ~is_header_or_blank(Line)
    /\ Len(parts_of(Line)) >= 3
    /\ ~float_ok(coverage_str(parts_of(Line)))
    /\ i' = i + 1
    /\ UNCHANGED <<f, modules, ret, ppc>> /\ UNCHANGED mainVars

\* modules.append({...})
AppendModule ==
    /\ InLoop
    /\ ~is_header_or_blank(Line)
    /\ Len(parts_of(Line)) >= 3
    /\ float_ok(coverage_str(parts_of(Line)))
    /\ modules' = Append(modules, module_record(parts_of(Line)))
    /\ i' = i + 1
    /\ UNCHANGED <<f, ret, ppc>> /\ UNCHANGED mainVars

\* the totals, the sort and the return, once the file is exhausted
Return ==
    /\ ppc = "loop" /\ i = Len(f)
    /\ ret' = report_of(modules)
    /\ ppc' = "returned"
    /\ UNCHANGED <<f, i, modules>> /\ UNCHANGED mainVars

ParseNext ==
    \/ SkipHeaderOrBlank
    \/ SkipShort
    \/ SkipBadCoverage
    \/ AppendModule
    \/ Return

ParseSpec == ParseInit /\ [][ParseNext]_vars

-----------------------------------------------------------------------------
\* What the claims about the parser speak of, stated on the input text

\* a line that is non-empty, is no header, has at least 3 fields and a
\* percentage field that float() accepts
IsDataLine(line) ==
    LET l == strip(line)
        fields == split_sep(l, Sep)
    IN  /\ l # <<>>
        /\ ~startswith(l, RaCoCo) /\ ~startswith(l, Filename)
        /\ Len(fields) >= 3
        /\ float_ok(strip(remove_char(fields[2], "%")))

\* the data lines among the lines the loop has consumed, in input order
DataLinesRead == SelectSeq(SubSeq(f, 1, i), IsDataLine)

\* the whitespace tokens of each field of a line after the second
SegmentTokens(line) ==
    LET fields == split_sep(strip(line), Sep) IN
    [s \in 3..Len(fields) |-> split(fields[s])]

\* the pairs of a line, segment by segment: <<s, j>> is the j-th pair of
\* tokens of segment s, kept when both tokens are integers
SegmentPairs(line) ==
    LET toks == SegmentTokens(line) IN
    {sj \in UNION {{<<s, j>> : j \in 1..(Len(toks[s]) \div 2)} :
                   s \in DOMAIN toks} :
        /\ int_ok(toks[sj[1]][2 * sj[2] - 1])
        /\ int_ok(toks[sj[1]][2 * sj[2]])}

SegmentPairsHit(line) ==
    LET toks == SegmentTokens(line) IN
    {sj \in SegmentPairs(line) : int_val(toks[sj[1]][2 * sj[2]]) > 0}

\* the tokens of all segments after the second field, as one stream
RECURSIVE Concat(_, _, _)
Concat(toks, s, last) ==
    IF s > last THEN <<>> ELSE toks[s] \o Concat(toks, s + 1, last)

TokenStream(line) ==
    LET toks == SegmentTokens(line) IN
    Concat(toks, 3, 2 + Cardinality(DOMAIN toks))

\* the pairs of the stream consumed two at a time, kept when both tokens are
\* integers
StreamPairs(line) ==
    LET stream == TokenStream(line) IN
    {j \in 1..(Len(stream) \div 2) :
        int_ok(stream[2 * j - 1]) /\ int_ok(stream[2 * j])}

StreamPairsHit(line) ==
    LET stream == TokenStream(line) IN
    {j \in StreamPairs(line) : int_val(stream[2 * j]) > 0}

\* how often x occurs in a sequence
Occurrences(xs, x) == Cardinality({k \in 1..Len(xs) : xs[k] = x})

IsPermutation(xs, ys) ==
    /\ Len(xs) = Len(ys)
    /\ \A k \in 1..Len(xs) : Occurrences(xs, xs[k]) = Occurrences(ys, xs[k])

\* where a stable descending sort puts element k of xs: after the elements
\* of greater coverage and after the earlier elements of equal coverage
StableRank(xs, k) ==
    1 + Cardinality({j \in 1..Len(xs) :
                        float_lt(xs[k].coverage, xs[j].coverage)})
      + Cardinality({j \in 1..(k - 1) :
                        /\ float_ge(xs[k].coverage, xs[j].coverage)
                        /\ float_ge(xs[j].coverage, xs[k].coverage)})

RECURSIVE SumField(_, _)
SumField(ms, field) ==
    IF ms = <<>> THEN 0 ELSE Head(ms)[field] + SumField(Tail(ms), field)

Abs(x) == IF x < 0 THEN -x ELSE x

-----------------------------------------------------------------------------
\* C3: parse_report_txt never raises on a malformed row and drops only the
\* malformed unit: the records of `modules` correspond one to one, in input
\* order, with the data lines read so far (non-empty, no header, at least 3
\* fields, a percentage float() accepts); each record counts every pair of
\* its line whose two tokens are integers, whatever the other pairs are; and
\* the returned modules are those records.
C3_RowTolerance ==
    LET dataLines == DataLinesRead IN
    /\ ppc # "raised"
    /\ Len(modules) = Len(dataLines)
    /\ \A k \in 1..Len(modules) :
        /\ modules[k].module = split_sep(strip(dataLines[k]), Sep)[1]
        /\ modules[k].totalLines = Cardinality(SegmentPairs(dataLines[k]))
    /\ ppc = "returned" => IsPermutation(ret.modules, modules)

\* a file with a data line between a short line and a line with a bad
\* percentage, the data line itself holding a non-integer token
C3_Witness ==
    /\ ppc = "returned"
    /\ f = <<LineShort, LineBadTok, LineBadPct>>
    /\ Len(ret.modules) = 1
    /\ ret.modules[1].totalLines = 1

\* C4: the returned totalLines and coveredLines are the sums over all module
\* records, in whatever order they are sorted; totalCoverage is 0.0 when
\* totalLines is 0 (an empty file gives no modules) and otherwise the tenth
\* of a percent nearest to coveredLines / totalLines * 100.
C4_Aggregates ==
    ppc = "returned" =>
        /\ ret.totalLines = SumField(ret.modules, "totalLines")
        /\ ret.coveredLines = SumField(ret.modules, "coveredLines")
        /\ ret.totalLines = SumField(modules, "totalLines")
        /\ ret.coveredLines = SumField(modules, "coveredLines")
        /\ ret.totalLines = 0 => ret.totalCoverage = 0
        /\ ret.totalLines > 0 =>
              2 * Abs(ret.totalCoverage * ret.totalLines
                      - 1000 * ret.coveredLines) <= ret.totalLines
        /\ f = <<>> => ret.modules = <<>> /\ ret.totalCoverage = 0

\* a report whose modules the sort reordered and whose percentage is rounded
C4_Witness ==
    /\ ppc = "returned"
    /\ Len(ret.modules) >= 2 /\ ret.modules # modules
    /\ ret.totalLines > 0
    /\ (1000 * ret.coveredLines) % ret.totalLines # 0

\* C5: the returned modules are a permutation of the parsed records, every
\* adjacent pair (a, b) has a.coverage >= b.coverage, and records of equal
\* coverage keep their input order.
C5_SortedDescending ==
    ppc = "returned" =>
        /\ IsPermutation(ret.modules, modules)
        /\ \A k \in 1..(Len(ret.modules) - 1) :
              float_ge(ret.modules[k].coverage, ret.modules[k + 1].coverage)
        /\ \A k \in 1..Len(modules) :
              ret.modules[StableRank(modules, k)] = modules[k]

\* what does hold of the sort: the same, for the files none of whose
\* percentages is NaN
SortedDescendingUnlessNan ==
    (ppc = "returned" /\ \A k \in 1..Len(modules) : ~modules[k].coverage.nan)
    => /\ IsPermutation(ret.modules, modules)
       /\ \A k \in 1..(Len(ret.modules) - 1) :
             float_ge(ret.modules[k].coverage, ret.modules[k + 1].coverage)
       /\ \A k \in 1..Len(modules) :
             ret.modules[StableRank(modules, k)] = modules[k]

\* C6: every module record has coveredLines <= totalLines, totalLines being
\* the number of pairs of its line that parsed and coveredLines the number
\* of those whose hit count is > 0 (zero and negative counts are not
\* covered); the aggregate has coveredLines <= totalLines too.
C6_CoveredAtMostTotal ==
    LET dataLines == DataLinesRead IN
    /\ \A k \in 1..Len(modules) :
        /\ 0 <= modules[k].coveredLines
        /\ modules[k].coveredLines <= modules[k].totalLines
        /\ modules[k].totalLines = Cardinality(SegmentPairs(dataLines[k]))
        /\ modules[k].coveredLines
              = Cardinality(SegmentPairsHit(dataLines[k]))
    /\ ppc = "returned" =>
        /\ ret.coveredLines <= ret.totalLines
        /\ \A k \in 1..Len(ret.modules) :
              ret.modules[k].coveredLines <= ret.modules[k].totalLines

\* a record with a covered pair, a pair hit zero times and, after it in the
\* file, a record with a negative hit count
C6_Witness ==
    /\ ppc = "returned"
    /\ f = <<LineFoo, LineNeg>>
    /\ modules[1].totalLines = 3 /\ modules[1].coveredLines = 2
    /\ modules[2].totalLines = 2 /\ modules[2].coveredLines = 0
    /\ ret.totalLines = 5 /\ ret.coveredLines = 2

\* C9: the pairs of a data line are those of the token stream of all its
\* segments after the second field, consumed two at a time across segment
\* boundaries.
C9_PairsAcrossSegments ==
    LET dataLines == DataLinesRead IN
    \A k \in 1..Len(modules) :
        /\ modules[k].totalLines = Cardinality(StreamPairs(dataLines[k]))
        /\ modules[k].coveredLines
              = Cardinality(StreamPairsHit(dataLines[k]))

-----------------------------------------------------------------------------
\* main: the command line, the paths and the files

DefaultDir == "coverage-report"

Flag == "--coverage-dir"

\* the command lines of the model: none, the option, the option without value
Argvs == {<<>>, <<Flag, "cov">>, <<Flag>>}

\* for i, arg in enumerate(sys.argv[1:]): the last option with a value wins
RECURSIVE parse_args(_, _)
parse_args(args, n) ==
    IF n = 0 THEN DefaultDir
    ELSE IF args[n] = Flag /\ n < Len(args) THEN args[n + 1]
    ELSE parse_args(args, n - 1)

coverage_dir == parse_args(argv, Len(argv))

\* A path is <<directory, stem, stamp, extension>>; the stamp is -1 in the
\* names that carry none.
join_report(dir, ext) == <<dir, "report", -1, ext>>
join_output(dir, stamp, ext) == <<dir, "coverage-report", stamp, ext>>

report_txt == join_report(coverage_dir, "txt")
report_html == join_report(coverage_dir, "html")

\* datetime.now().strftime("%Y-%m-%d-%H%M"): the minute the tick lies in
strftime(now) == now \div TicksPerMinute

json_path == join_output(coverage_dir, timestamp, "json")
md_path == join_output(coverage_dir, timestamp, "md")
html_path == join_output(coverage_dir, timestamp, "html")

\* os.path.exists
exists(path) == path \in DOMAIN fs

\* the file system with a file written at, or removed from, a path
Written(files, path, file) ==
    [q \in DOMAIN files \cup {path} |-> IF q = path THEN file ELSE files[q]]
Removed(files, path) == [q \in DOMAIN files \ {path} |-> files[q]]

\* the reports RaCoCo leaves in the directory
MainFiles == {<<>>, <<LineNeg, LineFoo>>}

\* a file is its content
TxtFile(lines) == [lines |-> lines]
\* report.html as RaCoCo rendered it before run number n
HtmlFile(n) == [blob |-> <<"<html>", n>>]

\* json.dump(data, f, indent=2) and the newline
JsonFile(d) == [json |-> d]

\* the lines write_markdown joins: the summary and one row per module
MarkdownFile(d) ==
    [summary |-> <<d.totalCoverage, d.coveredLines, d.totalLines>>,
     rows    |-> [k \in 1..Len(d.modules) |->
                    <<d.modules[k].module, d.modules[k].coverage,
                      d.modules[k].totalLines, d.modules[k].coveredLines>>]]

\* what open(path, 'w') leaves when the write after it raises
TruncatedFile == [truncated |-> TRUE]

Terminal == {"done", "exited", "crashed"}

\* the directory as RaCoCo leaves it: report.txt or not, report.html or not
Reports(files, dir, n) ==
    {LET withTxt == IF t = <<"absent">> THEN files
                    ELSE Written(files, join_report(dir, "txt"),
                                 TxtFile(t))
     IN  IF h THEN Written(withTxt, join_report(dir, "html"), HtmlFile(n))
         ELSE withTxt :
     t \in MainFiles \cup {<<"absent">>}, h \in BOOLEAN}

Init ==
    /\ ParserIdle
    /\ argv \in Argvs
    /\ clock = 0
    /\ fs \in Reports(<<>>, coverage_dir, 1)
    /\ start = fs
    /\ pc = "exists" /\ exc = "" /\ data = NoReport /\ timestamp = -1
    /\ stdout = <<>> /\ stderr = <<>> /\ status = -1
    /\ runs = 1

\* an uncaught exception: the traceback on the error stream, exit status 1
Raise(what) ==
    /\ pc' = "crashed" /\ exc' = what
    /\ stderr' = Append(stderr, <<"Traceback", what>>)
    /\ status' = 1

\* CheckInputMissing with a plain return after the message: exit status 0
CheckInputMissing_returns ==
    /\ pc = "exists" /\ ~exists(report_txt)
    /\ stderr' = Append(stderr, <<"Error: not found", report_txt>>)
    /\ status' = 0
    /\ pc' = "exited"
    /\ UNCHANGED <<argv, fs, clock, exc, data, timestamp, stdout, start, runs>>
    /\ UNCHANGED parseVars

\* if not os.path.exists(report_txt): print(..., file=sys.stderr); sys.exit(1)
CheckInputMissing ==
    /\ pc = "exists" /\ ~exists(report_txt)
    /\ stderr' = Append(stderr, <<"Error: not found", report_txt>>)
    /\ status' = 1
    /\ pc' = "exited"
    /\ UNCHANGED <<argv, fs, clock, exc, data, timestamp, stdout, start, runs>>
    /\ UNCHANGED parseVars

CheckInputPresent ==
    /\ pc = "exists" /\ exists(report_txt)
    /\ pc' = "parse"
    /\ UNCHANGED <<argv, fs, clock, exc, data, timestamp, stdout, stderr,
                   status, start, runs>>
    /\ UNCHANGED parseVars

\* data = parse_report_txt(report_txt)
Parse ==
    /\ pc = "parse" /\ exists(report_txt)
    /\ data' = parse_report_txt(fs[report_txt].lines)
    /\ pc' = "stamp"
    /\ UNCHANGED <<argv, fs, clock, exc, timestamp, stdout, stderr, status,
                   start, runs>>
    /\ UNCHANGED parseVars

\* open(path) or the read raises
ParseFails ==
    /\ pc = "parse"
    /\ Raise("parse_report_txt")
    /\ UNCHANGED <<argv, fs, clock, data, timestamp, stdout, start, runs>>
    /\ UNCHANGED parseVars

\* timestamp = datetime.now().strftime("%Y-%m-%d-%H%M")
TakeTimestamp ==
    /\ pc = "stamp"
    /\ timestamp' = strftime(clock)
    /\ pc' = "generated"
    /\ UNCHANGED <<argv, fs, clock, exc, data, stdout, stderr, status, start,
                   runs>>
    /\ UNCHANGED parseVars

\* data["generatedAt"] = datetime.now().isoformat()
SetGeneratedAt ==
    /\ pc = "generated"
    /\ data' = [totalCoverage |-> data.totalCoverage,
                totalLines    |-> data.totalLines,
                coveredLines  |-> data.coveredLines,
                modules       |-> data.modules,
                generatedAt   |-> clock]
    /\ pc' = "write_json"
    /\ UNCHANGED <<argv, fs, clock, exc, timestamp, stdout, stderr, status,
                   start, runs>>
    /\ UNCHANGED parseVars

\* WriteJson with os.remove(report_txt) placed right after it
WriteJson_then_remove ==
    /\ pc = "write_json"
    /\ fs' = Removed(Written(fs, json_path, JsonFile(data)), report_txt)
    /\ pc' = "write_md"
    /\ UNCHANGED <<argv, clock, exc, data, timestamp, stdout, stderr, status,
                   start, runs>>
    /\ UNCHANGED parseVars

\* write_json(data, json_path)
WriteJson ==
    /\ pc = "write_json"
    /\ fs' = Written(fs, json_path, JsonFile(data))
    /\ pc' = "write_md"
    /\ UNCHANGED <<argv, clock, exc, data, timestamp, stdout, stderr, status,
                   start, runs>>
    /\ UNCHANGED parseVars

\* write_json raises: in open(), or after it with the file truncated
WriteJsonFails ==
    /\ pc = "write_json"
    /\ fs' \in {fs, Written(fs, json_path, TruncatedFile)}
    /\ Raise("write_json")
    /\ UNCHANGED <<argv, clock, data, timestamp, stdout, start, runs>>
    /\ UNCHANGED parseVars

\* WriteMarkdown with the name built from a fresh reading of the clock
WriteMarkdown_fresh_clock ==
    /\ pc = "write_md"
    /\ fs' = Written(fs, join_output(coverage_dir, strftime(clock), "md"),
                     MarkdownFile(data))
    /\ pc' = "html"
    /\ UNCHANGED <<argv, clock, exc, data, timestamp, stdout, stderr, status,
                   start, runs>>
    /\ UNCHANGED parseVars

\* write_markdown(data, md_path)
WriteMarkdown ==
    /\ pc = "write_md"
    /\ fs' = Written(fs, md_path, MarkdownFile(data))
    /\ pc' = "html"
    /\ UNCHANGED <<argv, clock, exc, data, timestamp, stdout, stderr, status,
                   start, runs>>
    /\ UNCHANGED parseVars

WriteMarkdownFails ==
    /\ pc = "write_md"
    /\ fs' \in {fs, Written(fs, md_path, TruncatedFile)}
    /\ Raise("write_markdown")
    /\ UNCHANGED <<argv, clock, data, timestamp, stdout, start, runs>>
    /\ UNCHANGED parseVars

\* CopyHtml with the original removed before the copy, which then raises
CopyHtml_remove_first ==
    /\ pc = "html" /\ exists(report_html)
    /\ fs' = Removed(fs, report_html)
    /\ Raise("copy2")
    /\ UNCHANGED <<argv, clock, data, timestamp, stdout, start, runs>>
    /\ UNCHANGED parseVars

\* if os.path.exists(report_html): shutil.copy2(report_html, html_path)
CopyHtml ==
    /\ pc = "html" /\ exists(report_html)
    /\ fs' = Written(fs, html_path, fs[report_html])
    /\ pc' = "remove_html"
    /\ UNCHANGED <<argv, clock, exc, data, timestamp, stdout, stderr, status,
                   start, runs>>
    /\ UNCHANGED parseVars

CopyHtmlFails ==
    /\ pc = "html" /\ exists(report_html)
    /\ fs' \in {fs, Written(fs, html_path, TruncatedFile)}
    /\ Raise("copy2")
    /\ UNCHANGED <<argv, clock, data, timestamp, stdout, start, runs>>
    /\ UNCHANGED parseVars

\* the if is false: nothing to copy
SkipHtml ==
    /\ pc = "html" /\ ~exists(report_html)
    /\ pc' = "remove_txt"
    /\ UNCHANGED <<argv, fs, clock, exc, data, timestamp, stdout, stderr,
                   status, start, runs>>
    /\ UNCHANGED parseVars

\* os.remove(report_html)
RemoveHtml ==
    /\ pc = "remove_html" /\ exists(report_html)
    /\ fs' = Removed(fs, report_html)
    /\ pc' = "remove_txt"
    /\ UNCHANGED <<argv, clock, exc, data, timestamp, stdout, stderr, status,
                   start, runs>>
    /\ UNCHANGED parseVars

\* os.remove(report_txt)
RemoveTxt ==
    /\ pc = "remove_txt" /\ exists(report_txt)
    /\ fs' = Removed(fs, report_txt)
    /\ pc' = "print"
    /\ UNCHANGED <<argv, clock, exc, data, timestamp, stdout, stderr, status,
                   start, runs>>
    /\ UNCHANGED parseVars

\* os.remove raises, the file stays
RemoveFails ==
    /\ pc \in {"remove_html", "remove_txt"}
    /\ Raise("remove")
    /\ UNCHANGED <<argv, fs, clock, data, timestamp, stdout, start, runs>>
    /\ UNCHANGED parseVars

\* the summary: the coverage, the two paths, and html_path if it exists
PrintSummary ==
    /\ pc = "print"
    /\ stdout' = stdout
                 \o <<<<"Coverage", data.totalCoverage>>,
                      <<"Generated", json_path>>,
                      <<"Generated", md_path>>>>
                 \o (IF exists(html_path) THEN <<<<"Generated", html_path>>>>
                     ELSE <<>>)
    /\ status' = 0
    /\ pc' = "done"
    /\ UNCHANGED <<argv, fs, clock, exc, data, timestamp, stderr, start, runs>>
    /\ UNCHANGED parseVars

\* the wall clock advances, at any point of a run and between runs
Tick ==
    /\ clock < MaxClock
    /\ clock' = clock + 1
    /\ UNCHANGED <<argv, fs, pc, exc, data, timestamp, stdout, stderr, status,
                   start, runs>>
    /\ UNCHANGED parseVars

\* after a run has ended, RaCoCo may write its reports again and the tool is
\* run again with the same command line
RunAgain ==
    /\ pc \in Terminal /\ runs < MaxRuns
    /\ fs' \in Reports(fs, coverage_dir, runs + 1)
    /\ start' = fs'
    /\ pc' = "exists" /\ exc' = "" /\ data' = NoReport /\ timestamp' = -1
    /\ stdout' = <<>> /\ stderr' = <<>> /\ status' = -1
    /\ runs' = runs + 1
    /\ UNCHANGED <<argv, clock>>
    /\ UNCHANGED parseVars

Next ==
    \/ CheckInputMissing
    \/ CheckInputPresent
    \/ Parse
    \/ ParseFails
    \/ TakeTimestamp
    \/ SetGeneratedAt
    \/ WriteJson
    \/ WriteJsonFails
    \/ WriteMarkdown
    \/ WriteMarkdownFails
    \/ CopyHtml
    \/ CopyHtmlFails
    \/ SkipHtml
    \/ RemoveHtml
    \/ RemoveTxt
    \/ RemoveFails
    \/ PrintSummary
    \/ Tick
    \/ RunAgain

Spec == Init /\ [][Next]_vars

\* the runs in which no call raises
FaultFreeNext ==
    \/ CheckInputMissing
    \/ CheckInputPresent
    \/ Parse
    \/ TakeTimestamp
    \/ SetGeneratedAt
    \/ WriteJson
    \/ WriteMarkdown
    \/ CopyHtml
    \/ SkipHtml
    \/ RemoveHtml
    \/ RemoveTxt
    \/ PrintSummary
    \/ Tick
    \/ RunAgain

FaultFreeSpec == Init /\ [][FaultFreeNext]_vars

-----------------------------------------------------------------------------
\* What the claims about main speak of

\* the current run began with the file at the path
HadAtStart(path) == path \in DOMAIN start

\* the paths whose file the current run created or changed
WrittenByRun ==
    {p \in DOMAIN fs : ~HadAtStart(p) \/ fs[p] # start[p]}

\* the summary has the line "Generated: <path>"
Lists(path) ==
    \E k \in 1..Len(stdout) :
        stdout[k][1] = "Generated" /\ stdout[k][2] = path

\* C1: when report.txt does not exist at the start of a run, main exits with
\* a non-zero status after a diagnostic on the error stream and leaves the
\* file system as it was: no output is created, report.html is not touched.
C1_MissingInput ==
    ~HadAtStart(report_txt) =>
        /\ fs = start
        /\ pc \in Terminal =>
              /\ status # 0 /\ status # -1
              /\ Len(stderr) >= 1
              /\ stdout = <<>>

\* a run that found no report.txt beside a report.html, and has exited
C1_Witness ==
    /\ pc = "exited"
    /\ ~HadAtStart(report_txt) /\ HadAtStart(report_html)
    /\ exists(report_html)
    /\ status = 1

\* C2: report.txt is removed only after write_json and write_markdown have
\* both succeeded; a run in which a call raised leaves report.txt in place;
\* a run that completes has removed it.
C2_RemoveAfterWrites ==
    /\ (HadAtStart(report_txt) /\ ~exists(report_txt)) =>
          /\ pc \in {"print", "done"}
          /\ exists(json_path) /\ fs[json_path] = JsonFile(data)
          /\ exists(md_path) /\ fs[md_path] = MarkdownFile(data)
    /\ pc = "crashed" => exists(report_txt) /\ fs[report_txt] = start[report_txt]
    /\ pc = "done" => ~exists(report_txt)

\* write_markdown raised after write_json had written its file
C2_Witness ==
    /\ pc = "crashed" /\ exc = "write_markdown"
    /\ exists(json_path) /\ fs[json_path] = JsonFile(data)
    /\ exists(report_txt)

\* C7: the summary of a successful run lists the JSON path and the Markdown
\* path, and lists the HTML path exactly when this run produced the HTML
\* artifact, that is, when report.html existed for it to copy.
C7_SummaryListsOwnArtifacts ==
    pc = "done" =>
        /\ Lists(json_path) /\ Lists(md_path)
        /\ Lists(html_path) <=> HadAtStart(report_html)

\* C8: a report.html that exists at the archiving step is copied to
\* coverage-report-<timestamp>.html before it is removed, so that after a
\* successful run the copy holds its content and report.html is gone; with
\* no report.html the step is skipped, raises nothing, the run exits 0 and
\* creates or changes no .html file.
C8_HtmlArchived ==
    /\ HadAtStart(report_html) =>
          /\ ~exists(report_html) =>
                exists(html_path) /\ fs[html_path] = start[report_html]
          /\ pc = "done" =>
                /\ ~exists(report_html)
                /\ exists(html_path) /\ fs[html_path] = start[report_html]
                /\ status = 0
    /\ ~HadAtStart(report_html) =>
          /\ exc # "copy2"
          /\ pc = "done" => status = 0
          /\ \A p \in WrittenByRun : p[4] # "html"
          /\ \A p \in DOMAIN start : p[4] = "html" => exists(p)

\* a successful second run that archived the report.html rendered for it
C8_Witness ==
    /\ pc = "done" /\ runs = 2
    /\ HadAtStart(report_html) /\ ~exists(report_html)
    /\ fs[html_path] = HtmlFile(2)

\* C10: the timestamp token is taken once and names every output of the
\* run: each file the run writes lies in the coverage directory and carries
\* the token, and the .json, the .md and (when there is one) the .html of a
\* run carry the same token, wherever the clock has got to since.
C10_OneTimestamp ==
    /\ \A p \in WrittenByRun :
          p = <<coverage_dir, "coverage-report", timestamp, p[4]>>
    /\ pc \in {"remove_txt", "print", "done"} =>
          /\ exists(json_path) /\ fs[json_path] = JsonFile(data)
          /\ exists(md_path) /\ fs[md_path] = MarkdownFile(data)
          /\ HadAtStart(report_html) =>
                exists(html_path) /\ fs[html_path] = start[report_html]
    /\ timestamp # -1 => timestamp <= strftime(clock)

\* a finished run during which the minute changed right after the token was
\* taken: every file was written in a later minute than the one it names
C10_Witness ==
    /\ pc = "done"
    /\ strftime(data.generatedAt) # timestamp
    /\ exists(json_path) /\ exists(md_path) /\ exists(html_path)
    /\ HadAtStart(report_html)

====
